---- MODULE Spec2Model ----
(***************************************************************************)
(* State-machine model of github_backup.py: main() iterating the           *)
(* configured organizations and their repositories, backup_repository()    *)
(* deciding between a fresh mirror clone and an update of an existing      *)
(* clone (with the branch fallback), and the collaborators that run after  *)
(* the summary (cleanup_old_logs, send_heartbeat_ping).                    *)
(*                                                                         *)
(* Every subprocess.run of the source is one action; its exit status is    *)
(* chosen by the environment.  Paths are sequences of components; a path   *)
(* whose first component is "/" is absolute, any other is resolved against *)
(* the process working directory, as the operating system does.           *)
(***************************************************************************)
EXTENDS Integers, Sequences, FiniteSets, TLC

\* ------------------------------------------------------------------ bounds
\* number of successive executions of the script over the same disk
MaxRuns == 2
\* number of lines `git branch -r` may print
MaxBranchLines == 2

\* ------------------------------------------------------- configuration data
\* config['github']['token']
Token == "tok"

\* config['organizations'], in configuration order
Organizations == <<"o1", "o2">>

\* config['backup']['path']: absolute or relative to the start directory
AbsBackupPath == <<"/", "bk">>
RelBackupPath == <<"bk">>

\* the directory the script is started in
StartDir == <<"/", "home">>

\* a repository as returned by org.get_repos(): name, clone_url, default_branch
Repo(org, name, branch) ==
    [name |-> name,
     clone_url |-> <<"https://", "github.com", org, name>>,
     default_branch |-> branch]

\* the listing the remote API returns for an organization
Listing(org) ==
    IF org = "o1"
    THEN <<Repo("o1", "r1", "main"), Repo("o1", "r2", "dev")>>
    ELSE <<Repo("o2", "r1", "main")>>

\* ---------------------------------------------------------------- paths
IsAbs(p) == Len(p) > 0 /\ p[1] = "/"

\* os.path.join(a, b)
PathJoin(a, b) == IF IsAbs(b) THEN b ELSE a \o b

\* the file the operating system reaches for path p when the working
\* directory is dir
Resolve(dir, p) == IF IsAbs(p) THEN p ELSE dir \o p

\* origin/<default_branch> as a '/'-separated name
OriginRef(b) == <<"origin", b>>

\* ----------------------------------------------------- git branch -r lines
\* a line of output is the sequence of its '/'-separated pieces; <<>> is a
\* blank line
LMain == <<"origin", "main">>
LMaster == <<"origin", "master">>
LTopic == <<"origin", "topic">>
LFeatureMain == <<"origin", "feature", "main">>
LHead == <<"origin", "HEAD -> origin", "master">>
LBlank == <<>>

BranchLines == {LMain, LMaster, LTopic, LFeatureMain, LHead, LBlank}

\* sequences of distinct lines
RECURSIVE LineSeqs(_)
LineSeqs(n) ==
    IF n = 0 THEN {<<>>}
    ELSE LET shorter == LineSeqs(n - 1)
         IN  shorter \cup
             {Append(s, l) : s \in {t \in shorter : Len(t) = n - 1},
                             l \in BranchLines}

NoRepeat(s) == \A i, j \in 1..Len(s) : i # j => s[i] # s[j]

BranchOutputs == {s \in LineSeqs(MaxBranchLines) : NoRepeat(s)}

\* ------------------------------------------------ pure helpers of the code
\* line 88-90: base_url = clone_url.replace('https://', ''), then
\* authenticated_url = f"https://{token}@{base_url}"
BaseUrl(clone_url) == SelectSeq(clone_url, LAMBDA x : x # "https://")
AuthenticatedUrl(token, clone_url) == <<"https://", token, "@">> \o BaseUrl(clone_url)

\* line 138-139: split the output into lines, strip them, drop the blank ones
ParseBranches(out) == SelectSeq(out, LAMBDA l : l # LBlank)

\* b.endswith("/main"), b.endswith("/master")
EndsWithSlash(b, name) == Len(b) >= 2 /\ b[Len(b)] = name

\* any(b.endswith("/" + name) for b in remote_branches)
AnyEndsWith(bs, name) == \E i \in 1..Len(bs) : EndsWithSlash(bs[i], name)

\* next(b for b in remote_branches if b.endswith("/" + name))
FirstEndsWith(bs, name) ==
    bs[CHOOSE i \in 1..Len(bs) :
          /\ EndsWithSlash(bs[i], name)
          /\ \A j \in 1..(i - 1) : ~EndsWithSlash(bs[j], name)]

\* branch = None
NoBranch == <<>>

\* lines 144-154: the branch the fallback reset is given
SelectBranch(bs) ==
    IF bs = <<>> THEN NoBranch
    ELSE IF AnyEndsWith(bs, "main") THEN FirstEndsWith(bs, "main")
    ELSE IF AnyEndsWith(bs, "master") THEN FirstEndsWith(bs, "master")
    ELSE bs[1]

\* line 106: is_mirror = result.stdout.strip() == "true"
IsMirrorOutput(stdout) == stdout = "true"

\* ------------------------------------------------------------------ state
VARIABLES
    pc,                  \* position in main() / backup_repository()
    run,                 \* which execution of the script this is
    backup_path,         \* config['backup']['path']
    cwd,                 \* process working directory (absolute)
    disk,                \* local clones: set of [path, kind]
    orgDirs,             \* directories made by os.makedirs(org_path)
    orgIdx,              \* index into config['organizations']
    repoIdx,             \* index into the listing being iterated
    total_repos,
    successful_backups,
    failed_backups,
    repo,                \* backup_repository's argument
    org_path,            \* main's org_path, backup_repository's backup_path
    repo_path,
    authenticated_url,
    is_mirror,
    remote_branches,
    branch,
    result,              \* how backup_repository ended
    calls,               \* subprocess invocations of the current call
    attempted,           \* <<org, name>> given to backup_repository this run
    finished,            \* <<org, name, result>> of the calls that ended
    trace,               \* main-level events of this run, in order
    repoLog              \* log records of the current backup_repository call

cfgVars == <<run, backup_path>>
fsVars == <<cwd, disk, orgDirs>>
loopVars == <<orgIdx, repoIdx>>
countVars == <<total_repos, successful_backups, failed_backups>>
localVars == <<repo, org_path, repo_path, authenticated_url, is_mirror,
               remote_branches, branch>>
obsVars == <<calls, attempted, finished, trace>>

vars == <<pc, run, backup_path, cwd, disk, orgDirs, orgIdx, repoIdx,
          total_repos, successful_backups, failed_backups, repo, org_path,
          repo_path, authenticated_url, is_mirror, remote_branches, branch,
          result, calls, attempted, finished, trace, repoLog>>

NoRepo == [name |-> "", clone_url |-> <<>>, default_branch |-> ""]

\* every <<org, repository>> the listings can return
Targets ==
    UNION {{<<Organizations[i], Listing(Organizations[i])[j].name>> :
               j \in 1..Len(Listing(Organizations[i]))} :
           i \in 1..Len(Organizations)}

\* where the first sync of a run looks for the clone of <<org, name>>
TargetPath(bp, t) == Resolve(StartDir, PathJoin(PathJoin(bp, <<t[1]>>), <<t[2]>>))

\* what the first run may find: no target, or clones with a working tree
\* that were put there by hand, for the first repository listed or for
\* all of them.  The mirror clones and the unfinished directories are the
\* ones line 168 made in an earlier run.
InitDisks(bp) ==
    {{[path |-> TargetPath(bp, t), kind |-> "plain"] : t \in ts} :
     ts \in {{}, {<<"o1", "r1">>}, Targets}}

\* os.path.exists(p) with working directory dir
Exists(d, dir, p) == \E c \in d : c.path = Resolve(dir, p)
\* what made the directory dir: git clone --mirror ("mirror"), a clone
\* with a working tree ("plain"), a git clone that was killed ("unfinished")
KindAt(d, dir) == (CHOOSE c \in d : c.path = dir).kind

Init ==
    /\ pc = "main_auth"
    /\ run = 1
    /\ backup_path \in {AbsBackupPath, RelBackupPath}
    /\ cwd = StartDir
    /\ disk \in InitDisks(backup_path)
    /\ orgDirs = {}
    /\ orgIdx = 0
    /\ repoIdx = 0
    /\ total_repos = 0
    /\ successful_backups = 0
    /\ failed_backups = 0
    /\ repo = NoRepo
    /\ org_path = <<>>
    /\ repo_path = <<>>
    /\ authenticated_url = <<>>
    /\ is_mirror = FALSE
    /\ remote_branches = <<>>
    /\ branch = NoBranch
    /\ result = "none"
    /\ calls = <<>>
    /\ attempted = {}
    /\ finished = {}
    /\ trace = <<>>
    /\ repoLog = {}

\* ---------------------------------------------------------------- main()
CurrentOrg == Organizations[orgIdx]

\* lines 207-221: connect, g.get_user(), counters, os.makedirs(backup_path).
\* A failure is caught at lines 268-271 and main() goes to line 273.
AuthFailureTarget == "main_complete"

AuthenticateUnchecked ==
    /\ pc = "main_auth"
    /\ \/ trace' = Append(trace, <<"connected">>)
       \/ trace' = Append(trace, <<"auth_error">>)
    /\ orgIdx' = 1
    /\ total_repos' = 0
    /\ successful_backups' = 0
    /\ failed_backups' = 0
    /\ pc' = "main_org"
    /\ UNCHANGED <<cfgVars, fsVars, repoIdx, localVars, result, calls,
                   attempted, finished, repoLog>>

Authenticate ==
    /\ pc = "main_auth"
    /\ \/ /\ trace' = Append(trace, <<"connected">>)
          /\ orgIdx' = 1
          /\ total_repos' = 0
          /\ successful_backups' = 0
          /\ failed_backups' = 0
          /\ pc' = "main_org"
       \/ \* Github() or g.get_user() raises GithubException (line 268)
          /\ trace' = Append(trace, <<"auth_error">>)
          /\ pc' = AuthFailureTarget
          /\ UNCHANGED <<orgIdx, countVars>>
       \/ \* Github() or g.get_user() raises another exception (line 270)
          /\ trace' = Append(trace, <<"unhandled">>)
          /\ pc' = AuthFailureTarget
          /\ UNCHANGED <<orgIdx, countVars>>
       \/ \* os.makedirs(backup_path) of line 221 raises (line 270)
          /\ trace' = Append(Append(trace, <<"connected">>), <<"unhandled">>)
          /\ total_repos' = 0
          /\ successful_backups' = 0
          /\ failed_backups' = 0
          /\ pc' = AuthFailureTarget
          /\ UNCHANGED orgIdx
    /\ UNCHANGED <<cfgVars, fsVars, repoIdx, localVars, result, calls,
                   attempted, finished, repoLog>>

OrgAbortAfterError(i) == Len(Organizations) + 1

\* lines 245-248: the organization's except clauses; the for loop of line
\* 224 goes on with the next organization
OrgAfterError(i) == i + 1

\* the except clause that takes an exception of lines 226-243: line 245 a
\* GithubException, line 247 any other
OrgHandlers == {"api_error", "error"}

\* lines 224-234: get_organization, get_repos, os.makedirs(org_path)
OrgBegin ==
    /\ pc = "main_org"
    /\ orgIdx <= Len(Organizations)
    /\ \/ /\ org_path' = PathJoin(backup_path, <<CurrentOrg>>)
          /\ orgDirs' = orgDirs \cup {Resolve(cwd, org_path')}
          /\ trace' = Append(trace, <<"processing", CurrentOrg>>)
          /\ repoIdx' = 1
          /\ pc' = "main_repos"
          /\ UNCHANGED orgIdx
       \/ \* lines 229-230 raise, GithubException or not
          /\ \E handler \in OrgHandlers :
                trace' = Append(Append(trace, <<"processing", CurrentOrg>>),
                                <<handler, CurrentOrg>>)
          /\ orgIdx' = OrgAfterError(orgIdx)
          /\ UNCHANGED <<org_path, orgDirs, repoIdx, pc>>
       \/ \* os.makedirs(org_path) of line 234 raises (line 247)
          /\ org_path' = PathJoin(backup_path, <<CurrentOrg>>)
          /\ trace' = Append(Append(trace, <<"processing", CurrentOrg>>),
                             <<"error", CurrentOrg>>)
          /\ orgIdx' = OrgAfterError(orgIdx)
          /\ UNCHANGED <<orgDirs, repoIdx, pc>>
    /\ UNCHANGED <<cfgVars, cwd, disk, countVars, repo, repo_path,
                   authenticated_url, is_mirror, remote_branches, branch,
                   result, calls, attempted, finished, repoLog>>

\* line 224: the for loop over the organizations is exhausted
OrgsDone ==
    /\ pc = "main_org"
    /\ orgIdx > Len(Organizations)
    /\ pc' = "main_summary"
    /\ UNCHANGED <<cfgVars, fsVars, loopVars, countVars, localVars, result,
                   obsVars, repoLog>>

\* lines 237-240: the for loop over the listing yields the next repository,
\* ends, or raises while fetching a page (GithubException or not)
RepoNext ==
    /\ pc = "main_repos"
    /\ \/ /\ repoIdx <= Len(Listing(CurrentOrg))
          /\ repo' = Listing(CurrentOrg)[repoIdx]
          /\ total_repos' = total_repos + 1
          /\ attempted' = attempted \cup {<<CurrentOrg, repo'.name>>}
          /\ calls' = <<>>
          /\ repoLog' = {}
          /\ result' = "none"
          /\ pc' = "br_enter"
          /\ UNCHANGED <<orgIdx, trace>>
       \/ /\ repoIdx > Len(Listing(CurrentOrg))
          /\ orgIdx' = orgIdx + 1
          /\ pc' = "main_org"
          /\ UNCHANGED <<repo, total_repos, attempted, calls, repoLog,
                         result, trace>>
       \/ /\ repoIdx <= Len(Listing(CurrentOrg))
          /\ \E handler \in OrgHandlers :
                trace' = Append(trace, <<handler, CurrentOrg>>)
          /\ orgIdx' = OrgAfterError(orgIdx)
          /\ pc' = "main_org"
          /\ UNCHANGED <<repo, total_repos, attempted, calls, repoLog,
                         result>>
    /\ UNCHANGED <<cfgVars, fsVars, repoIdx, successful_backups,
                   failed_backups, org_path, repo_path, authenticated_url,
                   is_mirror, remote_branches, branch, finished>>

\* ------------------------------------------------- backup_repository()
\* how a subprocess.run can end: exit status zero, exit status non-zero,
\* or no exit status at all (the call itself raises, e.g. OSError)
Exits == {"ok", "nonzero", "oserror"}

\* one subprocess.run, as seen from outside
Invocation(cmd, args, exit) ==
    [cmd |-> cmd, args |-> args, cwd |-> cwd, exit |-> exit]

Goto(p) ==
    /\ pc' = p
    /\ UNCHANGED <<result, repoLog>>

\* backup_repository is left; main() goes on at line 240 or 247
Return(res, tags) ==
    /\ pc' = "main_after_call"
    /\ result' = res
    /\ repoLog' = repoLog \cup tags

\* what a git that exited non-zero left in e.stdout and e.stderr: nothing,
\* UTF-8 text, or bytes that are not UTF-8 (a Latin-1 message or ref name)
Outputs == {"none", "utf8", "other"}

\* a call made with text=True (line 136) has its output decoded by
\* subprocess.run itself, which raises on bytes it cannot decode (the
\* call then ends as "oserror")
OutputsOf(text) == IF text THEN Outputs \ {"other"} ELSE Outputs

\* lines 178-179: e.stdout.decode() if e.stdout else ''.  A non-empty str
\* (text=True) has no decode() and raises AttributeError; bytes that are
\* not UTF-8 raise UnicodeDecodeError.
DecodeRaises(text, out) == IF text THEN out # "none" ELSE out = "other"

\* lines 176-180: the exception of line 178 or 179 leaves the handler, and
\* backup_repository with it
CalledProcessErrorResult(text, out) ==
    IF DecodeRaises(text, out) THEN "raised" ELSE "False"

CalledProcessErrorHandler(text, out) ==
    Return(CalledProcessErrorResult(text, out), {"error: Git operation failed"})

\* lines 181-183
ExceptionHandler == Return("False", {"error: Failed to backup repository"})

\* lines 173-174
ReturnTrue == Return("True", {"info: Successfully backed up"})

\* a subprocess.run(..., check=True) whose output is captured as bytes
Checked(exit, next) ==
    CASE exit = "ok" -> Goto(next)
      [] exit = "nonzero" ->
            \E out \in OutputsOf(FALSE) : CalledProcessErrorHandler(FALSE, out)
      [] exit = "oserror" -> ExceptionHandler

\* the last subprocess.run(..., check=True) of a branch of line 93
CheckedLast(exit) ==
    CASE exit = "ok" -> ReturnTrue
      [] exit = "nonzero" ->
            \E out \in OutputsOf(FALSE) : CalledProcessErrorHandler(FALSE, out)
      [] exit = "oserror" -> ExceptionHandler

\* line 93: which branch is taken
AfterPathCheck(exists) == IF exists THEN "br_chdir" ELSE "br_clone"

\* lines 83-95, 164-166
Enter ==
    /\ pc = "br_enter"
    /\ repo_path' = PathJoin(org_path, <<repo.name>>)
    /\ authenticated_url' = AuthenticatedUrl(Token, repo.clone_url)
    /\ pc' = AfterPathCheck(Exists(disk, cwd, repo_path'))
    /\ repoLog' = repoLog \cup
           {IF Exists(disk, cwd, repo_path')
            THEN "info: Updating existing repository"
            ELSE "info: Cloning new repository"}
    /\ UNCHANGED <<cfgVars, fsVars, loopVars, countVars, repo, org_path,
                   is_mirror, remote_branches, branch, result, obsVars>>

\* line 96: os.chdir(repo_path)
ChangeDir ==
    /\ pc = "br_chdir"
    /\ \/ /\ cwd' = Resolve(cwd, repo_path)
          /\ Goto("br_probe")
       \/ /\ ExceptionHandler
          /\ UNCHANGED cwd
    /\ UNCHANGED <<cfgVars, disk, orgDirs, loopVars, countVars, localVars,
                   obsVars>>

\* what git config --get remote.origin.mirror prints: with exit status 0
\* the value the clone's configuration holds (true in a clone made with
\* --mirror, but also false, yes or an empty value, in a clone of any
\* kind), and nothing otherwise
ProbeStdouts(exit) == IF exit = "ok" THEN {"true", "false", "yes", ""} ELSE {""}

\* lines 99-110: check=False, and an exception is passed over
Probe ==
    /\ pc = "br_probe"
    /\ \E exit \in Exits :
          /\ calls' = Append(calls, Invocation("config --get remote.origin.mirror", <<>>, exit))
          /\ \E stdout \in ProbeStdouts(exit) :
                is_mirror' = IF exit = "oserror" THEN FALSE
                             ELSE IsMirrorOutput(stdout)
    /\ Goto("br_fetch_all")
    /\ UNCHANGED <<cfgVars, fsVars, loopVars, countVars, repo, org_path,
                   repo_path, authenticated_url, remote_branches, branch,
                   attempted, finished, trace>>

AfterFetchAllNoMirror(mirror) == "br_reset_default"

\* line 116: the update strategy
AfterFetchAll(mirror) == IF mirror THEN "br_fetch_prune" ELSE "br_reset_default"

\* line 114
FetchAll ==
    /\ pc = "br_fetch_all"
    /\ \E exit \in Exits :
          /\ calls' = Append(calls, Invocation("fetch --all", <<>>, exit))
          /\ Checked(exit, AfterFetchAll(is_mirror))
    /\ UNCHANGED <<cfgVars, fsVars, loopVars, countVars, localVars,
                   attempted, finished, trace>>

\* line 119
FetchPrune ==
    /\ pc = "br_fetch_prune"
    /\ \E exit \in Exits :
          /\ calls' = Append(calls, Invocation("fetch --prune", <<>>, exit))
          /\ Checked(exit, "br_fetch_tags_force")
    /\ UNCHANGED <<cfgVars, fsVars, loopVars, countVars, localVars,
                   attempted, finished, trace>>

\* line 120, then lines 173-174
FetchTagsForce ==
    /\ pc = "br_fetch_tags_force"
    /\ \E exit \in Exits :
          /\ calls' = Append(calls, Invocation("fetch --tags --force", <<>>, exit))
          /\ CheckedLast(exit)
    /\ UNCHANGED <<cfgVars, fsVars, loopVars, countVars, localVars,
                   attempted, finished, trace>>

\* lines 128-133: the inner except catches CalledProcessError only
ResetDefault ==
    /\ pc = "br_reset_default"
    /\ \E exit \in Exits :
          /\ calls' = Append(calls,
                 Invocation("reset --hard", <<OriginRef(repo.default_branch)>>, exit))
          /\ CASE exit = "ok" -> Goto("br_pull_all")
               [] exit = "nonzero" ->
                    /\ pc' = "br_branch_r"
                    /\ repoLog' = repoLog \cup {"warning: Could not reset"}
                    /\ UNCHANGED result
               [] exit = "oserror" -> ExceptionHandler
    /\ UNCHANGED <<cfgVars, fsVars, loopVars, countVars, localVars,
                   attempted, finished, trace>>

AfterSelectAlwaysReset(b) == "br_reset_fallback"

\* lines 145-156: with no branch the reset is skipped
AfterSelect(b) == IF b = NoBranch THEN "br_pull_all" ELSE "br_reset_fallback"

\* lines 136-156: git branch -r with text=True, the parse and the selection
BranchList ==
    /\ pc = "br_branch_r"
    /\ \E exit \in Exits :
          /\ calls' = Append(calls, Invocation("branch -r", <<>>, exit))
          /\ CASE exit = "ok" ->
                    \E out \in BranchOutputs :
                       /\ remote_branches' = ParseBranches(out)
                       /\ branch' = SelectBranch(remote_branches')
                       /\ pc' = AfterSelect(branch')
                       /\ repoLog' = repoLog \cup
                              {IF remote_branches' = <<>>
                               THEN "warning: No remote branches found"
                               ELSE "info: Resetting to"}
                       /\ UNCHANGED result
               [] exit = "nonzero" ->
                    /\ \E out \in OutputsOf(TRUE) :
                          CalledProcessErrorHandler(TRUE, out)
                    /\ UNCHANGED <<remote_branches, branch>>
               [] exit = "oserror" ->
                    /\ ExceptionHandler
                    /\ UNCHANGED <<remote_branches, branch>>
    /\ UNCHANGED <<cfgVars, fsVars, loopVars, countVars, repo, org_path,
                   repo_path, authenticated_url, is_mirror, attempted, finished, trace>>

\* line 158.  remote_branches and branch are not read after this line and
\* are dropped from the state here.
ResetFallback ==
    /\ pc = "br_reset_fallback"
    /\ \E exit \in Exits :
          /\ calls' = Append(calls, Invocation("reset --hard", <<branch>>, exit))
          /\ Checked(exit, "br_pull_all")
    /\ remote_branches' = <<>>
    /\ branch' = NoBranch
    /\ UNCHANGED <<cfgVars, fsVars, loopVars, countVars, repo, org_path,
                   repo_path, authenticated_url, is_mirror, attempted,
                   finished, trace>>

\* line 161
PullAll ==
    /\ pc = "br_pull_all"
    /\ \E exit \in Exits :
          /\ calls' = Append(calls, Invocation("pull --all", <<>>, exit))
          /\ Checked(exit, "br_fetch_tags")
    /\ UNCHANGED <<cfgVars, fsVars, loopVars, countVars, localVars,
                   attempted, finished, trace>>

\* line 162, then lines 173-174
FetchTags ==
    /\ pc = "br_fetch_tags"
    /\ \E exit \in Exits :
          /\ calls' = Append(calls, Invocation("fetch --tags", <<>>, exit))
          /\ CheckedLast(exit)
    /\ UNCHANGED <<cfgVars, fsVars, loopVars, countVars, localVars,
                   attempted, finished, trace>>

\* lines 168-171: git clone --mirror authenticated_url repo_path creates a
\* mirror clone at repo_path when it exits zero.  A git that fails removes
\* what it made; a git that is killed (a non-zero return code as well)
\* leaves its unfinished directory at repo_path.
CloneEffect(d, exit, path, killed) ==
    CASE exit = "ok" -> d \cup {[path |-> path, kind |-> "mirror"]}
      [] exit = "nonzero" /\ killed -> d \cup {[path |-> path, kind |-> "unfinished"]}
      [] OTHER -> d

\* lines 168-174
Clone ==
    /\ pc = "br_clone"
    /\ \E exit \in Exits :
          /\ calls' = Append(calls,
                 Invocation("clone --mirror", <<authenticated_url, repo_path>>, exit))
          /\ \E killed \in BOOLEAN :
                disk' = CloneEffect(disk, exit, Resolve(cwd, repo_path), killed)
          /\ CheckedLast(exit)
    /\ UNCHANGED <<cfgVars, cwd, orgDirs, loopVars, countVars, localVars,
                   attempted, finished, trace>>

\* --------------------------------------------------- main(), continued
\* lines 240-243: the counter the result of backup_repository adds to
CountsAfter(res, succ, fail) ==
    IF res = "True" THEN <<succ + 1, fail>> ELSE <<succ, fail + 1>>

\* lines 240-243, and lines 247-248 when backup_repository raised: the
\* exception leaves the for loop of line 237
AfterCall ==
    /\ pc = "main_after_call"
    /\ finished' = finished \cup {<<CurrentOrg, repo.name, result>>}
    /\ IF result = "raised"
       THEN /\ trace' = Append(trace, <<"error", CurrentOrg>>)
            /\ orgIdx' = OrgAfterError(orgIdx)
            /\ pc' = "main_org"
            /\ UNCHANGED <<repoIdx, successful_backups, failed_backups>>
       ELSE /\ successful_backups' =
                   CountsAfter(result, successful_backups, failed_backups)[1]
            /\ failed_backups' =
                   CountsAfter(result, successful_backups, failed_backups)[2]
            /\ repoIdx' = repoIdx + 1
            /\ pc' = "main_repos"
            /\ UNCHANGED <<orgIdx, trace>>
    /\ repo' = NoRepo
    /\ repo_path' = <<>>
    /\ authenticated_url' = <<>>
    /\ is_mirror' = FALSE
    /\ remote_branches' = <<>>
    /\ branch' = NoBranch
    /\ result' = "none"
    /\ calls' = <<>>
    /\ repoLog' = {}
    /\ UNCHANGED <<cfgVars, fsVars, total_repos, org_path, attempted>>

\* lines 250-261
Summary ==
    /\ pc = "main_summary"
    /\ trace' = Append(trace,
           <<"summary", total_repos, successful_backups, failed_backups>>)
    /\ pc' = "main_cleanup"
    /\ UNCHANGED <<cfgVars, fsVars, loopVars, countVars, localVars, result,
                   calls, attempted, finished, repoLog>>

\* what cleanup_old_logs (lines 67-79) can meet: it returns (nothing to
\* remove, or every old file removed), os.remove fails on an old file
\* (caught and logged at lines 78-79), or log_file.stat() fails on a file
\* (line 73, outside the try)
CleanupCases == {"returned", "remove failed", "stat failed"}

\* TRUE when cleanup_old_logs raises to main()
CleanupRaises(case) == case = "stat failed"

\* line 264 in a main() without the handler of lines 270-271: the
\* exception of cleanup_old_logs leaves main() before line 273
CleanupUncaught ==
    /\ pc = "main_cleanup"
    /\ \E case \in CleanupCases :
          /\ trace' = Append(trace, <<"cleanup", case>>)
          /\ pc' = IF CleanupRaises(case) THEN "raised"
                   ELSE "main_heartbeat"
    /\ UNCHANGED <<cfgVars, fsVars, loopVars, countVars, localVars, result,
                   calls, attempted, finished, repoLog>>

\* line 264; an exception is caught at lines 270-271
Cleanup ==
    /\ pc = "main_cleanup"
    /\ \E case \in CleanupCases :
          /\ trace' = Append(trace, <<"cleanup", case>>)
          /\ pc' = IF CleanupRaises(case) THEN "main_complete"
                   ELSE "main_heartbeat"
    /\ UNCHANGED <<cfgVars, fsVars, loopVars, countVars, localVars, result,
                   calls, attempted, finished, repoLog>>

\* what send_heartbeat_ping (lines 185-199) can meet: it returns (no URL
\* configured, or a reply of any status), requests.get raises (caught and
\* logged at lines 198-199), or the import of line 187 fails (outside the
\* try, caught at lines 270-271 of main)
HeartbeatCases == {"returned", "get failed", "import failed"}

\* line 266
Heartbeat ==
    /\ pc = "main_heartbeat"
    /\ \E case \in HeartbeatCases :
          trace' = Append(trace, <<"heartbeat", case>>)
    /\ pc' = "main_complete"
    /\ UNCHANGED <<cfgVars, fsVars, loopVars, countVars, localVars, result,
                   calls, attempted, finished, repoLog>>

\* line 273
Complete ==
    /\ pc = "main_complete"
    /\ trace' = Append(trace, <<"complete">>)
    /\ pc' = "done"
    /\ UNCHANGED <<cfgVars, fsVars, loopVars, countVars, localVars, result,
                   calls, attempted, finished, repoLog>>

\* the script is started again (lines 275-276) over the disk the earlier
\* run left
NewRun ==
    /\ pc = "done"
    /\ run < MaxRuns
    /\ run' = run + 1
    /\ pc' = "main_auth"
    /\ cwd' = StartDir
    /\ orgDirs' = {}
    /\ orgIdx' = 0
    /\ repoIdx' = 0
    /\ total_repos' = 0
    /\ successful_backups' = 0
    /\ failed_backups' = 0
    /\ org_path' = <<>>
    /\ attempted' = {}
    /\ finished' = {}
    /\ trace' = <<>>
    /\ UNCHANGED <<backup_path, disk, repo, repo_path, authenticated_url,
                   is_mirror, remote_branches, branch, result, calls, repoLog>>

Next ==
    \/ Authenticate
    \/ OrgBegin
    \/ OrgsDone
    \/ RepoNext
    \/ Enter
    \/ ChangeDir
    \/ Probe
    \/ FetchAll
    \/ FetchPrune
    \/ FetchTagsForce
    \/ ResetDefault
    \/ BranchList
    \/ ResetFallback
    \/ PullAll
    \/ FetchTags
    \/ Clone
    \/ AfterCall
    \/ Summary
    \/ Cleanup
    \/ Heartbeat
    \/ Complete
    \/ NewRun

Spec == Init /\ [][Next]_vars

\* ======================================================= properties
InTrace(e) == \E i \in 1..Len(trace) : trace[i] = e
HasCall(c) == \E i \in 1..Len(calls) : calls[i].cmd = c
CallOk(c) == \E i \in 1..Len(calls) : calls[i].cmd = c /\ calls[i].exit = "ok"
ResetCount == Cardinality({i \in 1..Len(calls) : calls[i].cmd = "reset --hard"})
ProcessingEvents == SelectSeq(trace, LAMBDA e : e[1] = "processing")
ApiErrors(tr) == {tr[i][2] : i \in {k \in 1..Len(tr) : tr[k][1] = "api_error"}}
OrgErrors(tr) ==
    {tr[i][2] : i \in {k \in 1..Len(tr) : tr[k][1] \in {"api_error", "error"}}}
\* the organizations dropped on an exception of the listing, not on one
\* that left backup_repository
ListingErrors == {o \in OrgErrors(trace) : \A x \in finished : x[1] = o => x[3] # "raised"}
ListedTargets(org) == {<<org, Listing(org)[j].name>> : j \in 1..Len(Listing(org))}
NoBranchWarning == "warning: No remote branches found"

\* C1: when the organizations have all been processed, a repository whose
\* sync failed (backup_repository did not end with True) has not kept any
\* repository of a listing that was returned without an error from being
\* given to backup_repository.
C1_FailureIsolation ==
    pc = "main_summary" =>
        \A x \in finished :
            x[3] # "True" =>
                \A i \in 1..Len(Organizations) :
                    Organizations[i] \notin ListingErrors =>
                        ListedTargets(Organizations[i]) \subseteq attempted

\* C2: the update branch is entered only for a path that exists; the clone
\* branch starts with no invocation made; and a call that took the clone
\* branch ends with exactly one invocation, git clone --mirror of the
\* token-embedded URL into the target path, and with True when it exited
\* zero and False otherwise.
C2_FreshClone ==
    /\ pc = "br_chdir" => Exists(disk, cwd, repo_path)
    /\ pc = "br_clone" => calls = <<>> /\ ~Exists(disk, cwd, repo_path)
    /\ (pc = "main_after_call" /\ "info: Cloning new repository" \in repoLog) =>
          /\ Len(calls) = 1
          /\ calls[1].cmd = "clone --mirror"
          /\ calls[1].args =
                <<<<"https://", Token, "@", "github.com", CurrentOrg, repo.name>>,
                  repo_path>>
          /\ result = IF calls[1].exit = "ok" THEN "True" ELSE "False"

\* C3 as stated: a clone found to be a mirror is never reset, listed or
\* pulled, and fetch --prune and fetch --tags --force are always attempted.
C3_Original ==
    (pc = "main_after_call" /\ is_mirror) =>
        /\ ~HasCall("reset --hard")
        /\ ~HasCall("branch -r")
        /\ ~HasCall("pull --all")
        /\ HasCall("fetch --prune")
        /\ HasCall("fetch --tags --force")

\* C3 amended: a clone found to be a mirror is never reset, listed or
\* pulled; fetch --prune is attempted whenever fetch --all exited zero, and
\* fetch --tags --force whenever fetch --prune exited zero.
C3_MirrorUpdate ==
    is_mirror =>
        /\ ~HasCall("reset --hard")
        /\ ~HasCall("branch -r")
        /\ ~HasCall("pull --all")
        /\ pc \notin {"br_reset_default", "br_branch_r", "br_reset_fallback",
                      "br_pull_all", "br_fetch_tags"}
        /\ pc = "main_after_call" =>
              /\ CallOk("fetch --all") => HasCall("fetch --prune")
              /\ CallOk("fetch --prune") => HasCall("fetch --tags --force")

C3_Witness ==
    /\ pc = "main_after_call"
    /\ HasCall("fetch --all")
    /\ KindAt(disk, cwd) = "mirror"
    /\ is_mirror
    /\ CallOk("fetch --prune")
    /\ CallOk("fetch --tags --force")
    /\ result = "True"

\* the choice C4 states: the branch literally named main, else the one
\* literally named master, else the first one listed
LiteralChoice(bs) ==
    IF \E i \in 1..Len(bs) : bs[i] = LMain THEN LMain
    ELSE IF \E i \in 1..Len(bs) : bs[i] = LMaster THEN LMaster
    ELSE bs[1]

\* C4: the fallback reset is given the remote branch literally named main
\* if one is listed, else the one literally named master, else the first
\* branch listed.
C4_FallbackPriority ==
    pc = "br_reset_fallback" => branch = LiteralChoice(remote_branches)

\* C5 as stated: when the enumeration returns no branch there is no
\* fallback reset and the sync is reported successful.
C5_Original ==
    NoBranchWarning \in repoLog =>
        /\ ResetCount = 1
        /\ pc = "main_after_call" => result = "True"

C5_Step ==
    /\ (pc = "br_branch_r" /\ pc' # "br_branch_r") =>
          /\ (calls'[Len(calls')].exit = "ok" /\ remote_branches' = <<>>)
                <=> NoBranchWarning \in repoLog'
          /\ NoBranchWarning \in repoLog' =>
                pc' = "br_pull_all" /\ result' = "none"
    /\ (pc # "br_branch_r" /\ NoBranchWarning \in repoLog') =>
          NoBranchWarning \in repoLog
    /\ (pc = "main_after_call" /\ result = "True") =>
          /\ successful_backups' = successful_backups + 1
          /\ failed_backups' = failed_backups

C5_Inv ==
    NoBranchWarning \in repoLog =>
        /\ ResetCount = 1
        /\ pc # "br_reset_fallback"
        /\ pc = "main_after_call" =>
              (result = "True" <=> (CallOk("pull --all") /\ CallOk("fetch --tags")))

\* C5 amended: when the first reset failed and the enumeration exits zero
\* with no branch, the warning is logged and no fallback reset is made; the
\* sync goes on with pull --all and fetch --tags, and it ends with True
\* (counted in successful_backups, not in failed_backups) exactly when both
\* exit zero.
C5_NoBranchAvailable == [][C5_Step]_vars /\ []C5_Inv

C5_Witness ==
    /\ pc = "main_after_call"
    /\ NoBranchWarning \in repoLog
    /\ KindAt(disk, cwd) = "plain"
    /\ ResetCount = 1
    /\ result = "True"

C6_Step ==
    /\ \A o \in OrgErrors(trace') \ OrgErrors(trace) :
          /\ o = CurrentOrg
          /\ UNCHANGED countVars
          /\ orgIdx' = orgIdx + 1
          /\ pc' = "main_org"
    /\ \A t \in attempted' \ attempted : t[1] \notin OrgErrors(trace')

C6_Inv ==
    /\ \E k \in 0..Len(Organizations) :
          ProcessingEvents = [i \in 1..k |-> <<"processing", Organizations[i]>>]
    /\ pc = "main_summary" => Len(ProcessingEvents) = Len(Organizations)

\* C6: the organizations are taken up in configuration order; an error
\* logged for one of them (at get_organization, at its directory or while
\* iterating the listing, by either except clause) ends that organization
\* only, keeps the counters, and every organization has been taken up when
\* the summary is reached.
C6_OrganizationIsolation == [][C6_Step]_vars /\ []C6_Inv

C6_Witness ==
    /\ pc = "main_summary"
    /\ InTrace(<<"error", "o1">>)
    /\ "o1" \in ListingErrors
    /\ attempted = {<<"o1", "r1">>, <<"o2", "r1">>}
    /\ total_repos = 2
    /\ successful_backups + failed_backups = 2

\* C7: backup_repository always ends by returning True or False to main().
C7_ExecutorBoundary ==
    pc = "main_after_call" => result \in {"True", "False"}

\* the invocations whose non-zero exit section 4 makes a failure: all but
\* the mirror probe (check=False) and the first reset of the Branch Resolver
FailureIsTerminal(i) ==
    /\ calls[i].cmd # "config --get remote.origin.mirror"
    /\ ~(calls[i].cmd = "reset --hard"
         /\ \A j \in 1..(i - 1) : calls[j].cmd # "reset --hard")

\* C8: an invocation that exits non-zero is the last one of the call and
\* makes its result False; no invocation is repeated; a repository is given
\* to backup_repository at most once in a run.
C8_NonZeroIsTerminal ==
    /\ \A i \in 1..Len(calls) :
          (calls[i].exit = "nonzero" /\ FailureIsTerminal(i)) =>
              /\ i = Len(calls)
              /\ pc = "main_after_call"
              /\ result = "False"
    /\ \A i, j \in 1..Len(calls) :
          (i # j /\ calls[i].cmd # "reset --hard") => calls[i].cmd # calls[j].cmd
    /\ total_repos = Cardinality(attempted)

\* C9: a run that passed authentication ends with the summary, then the
\* log cleanup, then the heartbeat ping, whatever the cleanup met.
C9_PostRunCollaborators ==
    (pc = "done" /\ InTrace(<<"connected">>)) =>
        \E i, j, k \in 1..Len(trace) :
            /\ i < j /\ j < k
            /\ trace[i][1] = "summary"
            /\ trace[j][1] = "cleanup"
            /\ trace[k][1] = "heartbeat"

\* C10: until authentication has succeeded, no organization is taken up, no
\* organization directory is made, backup_repository is given no repository
\* and no tool is invoked; failed authentication leads straight to the end.
C10_AuthenticationFirst ==
    ~InTrace(<<"connected">>) =>
        /\ pc \in {"main_auth", "main_complete", "done"}
        /\ ProcessingEvents = <<>>
        /\ orgDirs = {}
        /\ attempted = {}
        /\ finished = {}
        /\ calls = <<>>
        /\ total_repos = 0

C10_Witness ==
    /\ pc = "done"
    /\ trace = <<<<"auth_error">>, <<"complete">>>>

SummaryEvents == SelectSeq(trace, LAMBDA e : e[1] = "summary")
EndedWith(res) == {x \in finished : x[3] = res}
AfterSummary == {"main_cleanup", "main_heartbeat", "main_complete", "done"}

\* C11: a run that passed authentication emits the summary exactly once,
\* after every configured organization has been taken up and before the
\* cleanup; its figures are the number of repositories given to
\* backup_repository, the number that ended with True and the number that
\* did not (so one failed clone among successes shows failed = 1).
\* A run that failed authentication emits none.
C11_SummaryEmission ==
    /\ InTrace(<<"connected">>) =>
          /\ pc \notin AfterSummary => SummaryEvents = <<>>
          /\ pc \in AfterSummary =>
                /\ Len(SummaryEvents) = 1
                /\ SummaryEvents[1] =
                      <<"summary", Cardinality(attempted),
                        Cardinality(EndedWith("True")),
                        Cardinality(finished \ EndedWith("True"))>>
                /\ Len(ProcessingEvents) = Len(Organizations)
                /\ \A i, j \in 1..Len(trace) :
                      (trace[i][1] = "summary" /\ trace[j][1] = "processing")
                          => j < i
    /\ ~InTrace(<<"connected">>) => SummaryEvents = <<>>

\* the positions of main() outside backup_repository
MainPositions == {"main_auth", "main_org", "main_repos", "main_after_call",
                  "main_summary", "main_cleanup", "main_heartbeat",
                  "main_complete", "done"}

\* C12: whenever main() is outside backup_repository the process working
\* directory is the one the run started in: no call leaves it changed, so
\* the path check and the invocations of a later repository start from it.
C12_WorkingDirectoryScoping ==
    pc \in MainPositions => cwd = StartDir

\* the path an invocation operates on: the destination of a clone, the
\* working directory of any other command
OperatedPath(c) ==
    IF c.cmd = "clone --mirror" THEN Resolve(c.cwd, c.args[2]) ELSE c.cwd

\* C13: every invocation made for a repository operates on
\* backup root / organization / repository name, the backup root being the
\* configured path as seen from the directory the run started in.
C13_ClonePath ==
    \A i \in 1..Len(calls) :
        OperatedPath(calls[i]) = TargetPath(backup_path, <<CurrentOrg, repo.name>>)

\* the commands of the current call, the mirror probe left out
Commands ==
    LET made == SelectSeq(calls, LAMBDA c : c.cmd # "config --get remote.origin.mirror")
    IN  [i \in 1..Len(made) |-> made[i].cmd]

IsPrefix(s, t) == Len(s) <= Len(t) /\ s = SubSeq(t, 1, Len(s))

\* an update of a clone that has a working tree is under way or has ended
UpdatingPlain ==
    /\ "info: Updating existing repository" \in repoLog
    /\ Len(calls) >= 1
    /\ KindAt(disk, cwd) = "plain"

FirstResetFailed ==
    \E i \in 1..Len(calls) :
        /\ calls[i].cmd = "reset --hard"
        /\ calls[i].exit = "nonzero"
        /\ \A j \in 1..(i - 1) : calls[j].cmd # "reset --hard"

\* the orders of commands C14 allows, the last one being `tags`
NonMirrorOrders(tags) ==
    {<<"fetch --all", "reset --hard", "pull --all", tags>>,
     <<"fetch --all", "reset --hard", "branch -r", "pull --all", tags>>,
     <<"fetch --all", "reset --hard", "branch -r", "reset --hard",
       "pull --all", tags>>}

OrderedAs(tags) ==
    UpdatingPlain =>
        /\ \E o \in NonMirrorOrders(tags) : IsPrefix(Commands, o)
        /\ HasCall("branch -r") => FirstResetFailed
        /\ ResetCount <= 2
        /\ \A i \in 1..Len(calls) :
              (calls[i].cmd = "reset --hard"
               /\ \A j \in 1..(i - 1) : calls[j].cmd # "reset --hard")
                  => calls[i].args = <<OriginRef(repo.default_branch)>>

\* C14: the update of a non-mirror clone invokes fetch --all, reset --hard
\* origin/<default branch>, then (only when that reset failed) branch -r and
\* at most one more reset, then pull --all, then fetch --tags --force.
C14_NonMirrorOrdering == OrderedAs("fetch --tags --force")

\* the same order with the tag fetch the code makes at line 162, for a
\* clone the probe did not find to be a mirror
C14_OrderingAsCoded == ~is_mirror => OrderedAs("fetch --tags")

\* C15: when the branch listing or the fallback reset exits non-zero,
\* neither pull --all nor the tag fetch is invoked and the call ends with
\* False.
C15_ResolverHardFailures ==
    (pc = "main_after_call" /\ UpdatingPlain /\
     \E i \in 1..Len(calls) :
        /\ calls[i].exit = "nonzero"
        /\ \/ calls[i].cmd = "branch -r"
           \/ /\ calls[i].cmd = "reset --hard"
              /\ \E j \in 1..(i - 1) : calls[j].cmd = "reset --hard")
    => /\ ~HasCall("pull --all")
       /\ ~HasCall("fetch --tags")
       /\ result = "False"

\* C16: between two syncs and at the summary every repository taken from a
\* listing has been counted once in total_repos and once in exactly one of
\* successful_backups and failed_backups.
C16_CounterInvariant ==
    pc \in {"main_org", "main_repos", "main_summary"} \cup AfterSummary =>
        /\ InTrace(<<"connected">>) =>
              /\ total_repos = Cardinality(attempted)
              /\ total_repos = successful_backups + failed_backups
        /\ \A i \in 1..Len(trace) :
              trace[i][1] = "summary" => trace[i][2] = trace[i][3] + trace[i][4]

\* ------------------------------------------- runs over an empty backup
\* The first run finds nothing under its (absolute) backup path, so every
\* clone a later run meets was made by line 168 of an earlier run.
InitFresh == Init /\ disk = {} /\ backup_path = AbsBackupPath

SpecFresh == InitFresh /\ [][Next]_vars

\* C17 (under SpecFresh): a mirror clone made by an earlier run, whose
\* probe exits non-zero or cannot be run, is updated with fetch --all,
\* fetch --prune, fetch --tags --force, in this order, and is never reset
\* or pulled.
C17_MirrorSticky ==
    ("info: Updating existing repository" \in repoLog
        /\ Len(calls) >= 1
        /\ KindAt(disk, cwd) = "mirror"
        /\ calls[1].exit # "ok") =>
        /\ IsPrefix(Commands,
                    <<"fetch --all", "fetch --prune", "fetch --tags --force">>)
        /\ ~HasCall("reset --hard")
        /\ ~HasCall("pull --all")

\* ------------------------------------------------------------ progress
\* Every API call and every tool invocation returns, so a run that has not
\* reached the end of main() takes its next step; nothing starts the
\* script again. The runs start over an empty backup: the first one clones,
\* the later ones update what the earlier ones left.
FairFresh == SpecFresh /\ WF_vars(Next /\ pc # "done")

\* C18 (under FairFresh): a run of main() that has loaded its configuration
\* reaches the end of main(), whatever fails on the way, and the last thing
\* it logged there is the completion line.
C18_NormalCompletion ==
    (pc = "main_auth") ~>
        (pc = "done" /\ trace # <<>> /\ trace[Len(trace)] = <<"complete">>)

\* the second run ends after an organization was dropped on an exception,
\* log_file.stat() raised in the cleanup and the heartbeat was skipped
C18_Witness ==
    /\ pc = "done"
    /\ run = 2
    /\ InTrace(<<"error", "o1">>)
    /\ InTrace(<<"api_error", "o2">>)
    /\ InTrace(<<"cleanup", "stat failed">>)
    /\ trace[Len(trace)] = <<"complete">>

====
